---------------------------- MODULE Spec2Model ----------------------------
(* A model of parse_mappings (src/conversion.py): the two-pass parser of  *)
(* ProGuard-style mapping text and the JVM descriptor converter it uses.  *)
(* Text is modelled as a sequence of one-character strings, so that the   *)
(* regular expressions, split/strip/replace and the descriptor converter  *)
(* are computed character by character, as the code computes them.        *)
EXTENDS Integers, Sequences, FiniteSets, TLC

VARIABLES input_text, lines, pc, idx, data, class_map,
          current_class_jvm, method_overloads, first_call, interleaved

vars == <<input_text, lines, pc, idx, data, class_map,
          current_class_jvm, method_overloads, first_call, interleaved>>

(**************************************************************************)
(* Bounds of the model.                                                   *)
(**************************************************************************)
MaxLines == 4

MaxExampleLines == 4

MaxCallLines == 2

(**************************************************************************)
(* Characters and character classes of the regular expressions.           *)
(**************************************************************************)
Lower == {"a","b","c","d","e","f","g","h","i","j","k","l","m",
          "n","o","p","q","r","s","t","u","v","w","x","y","z"}

Upper == {"A","B","C","D","E","F","G","H","I","J","K","L","M",
          "N","O","P","Q","R","S","T","U","V","W","X","Y","Z"}

Digits == {"0","1","2","3","4","5","6","7","8","9"}

WordChars == Lower \cup Upper \cup Digits \cup {"_"}

Whitespace == {" ", "\t", "\r", "\n", "\f"}

ClassOrigChars == WordChars \cup {".", "$"}

ClassObfChars == WordChars \cup {"$"}

TypeChars == WordChars \cup {".", "<", ">", "$"}

MethodNameChars == WordChars \cup {"<", ">", "$"}

FieldNameChars == WordChars \cup {"$"}

(**************************************************************************)
(* String helpers (Python str methods on character sequences).            *)
(**************************************************************************)
None == <<>>

AllIn(s, cs) == \A k \in 1..Len(s) : s[k] \in cs

RECURSIVE RunEnd(_, _, _)
RunEnd(s, i, cs) ==
    IF i >= 1 /\ i <= Len(s) /\ s[i] \in cs THEN RunEnd(s, i + 1, cs) ELSE i - 1

LastIndexOf(s, c) ==
    LET hits == {k \in 1..Len(s) : s[k] = c}
    IN  IF hits = {} THEN 0 ELSE CHOOSE k \in hits : \A j \in hits : j <= k

FirstIndexOf(s, c) ==
    LET hits == {k \in 1..Len(s) : s[k] = c}
    IN  IF hits = {} THEN 0 ELSE CHOOSE k \in hits : \A j \in hits : k <= j

ReplaceChar(s, c, d) == [k \in 1..Len(s) |-> IF s[k] = c THEN d ELSE s[k]]

RECURSIVE Split(_, _)
Split(s, sep) ==
    LET p == FirstIndexOf(s, sep)
    IN  IF p = 0 THEN <<s>>
        ELSE <<SubSeq(s, 1, p - 1)>> \o Split(SubSeq(s, p + 1, Len(s)), sep)

RECURSIVE LStrip(_)
LStrip(s) == IF s # <<>> /\ s[1] \in Whitespace THEN LStrip(Tail(s)) ELSE s

RECURSIVE RStrip(_)
RStrip(s) ==
    IF s # <<>> /\ s[Len(s)] \in Whitespace THEN RStrip(SubSeq(s, 1, Len(s) - 1)) ELSE s

Strip(s) == LStrip(RStrip(s))

StartsWith(s, c) == s # <<>> /\ s[1] = c

RECURSIVE CountBrackets(_)
CountBrackets(s) ==
    IF Len(s) < 2 THEN 0
    ELSE IF s[1] = "[" /\ s[2] = "]" THEN 1 + CountBrackets(SubSeq(s, 3, Len(s)))
    ELSE CountBrackets(Tail(s))

RECURSIVE RemoveBrackets(_)
RemoveBrackets(s) ==
    IF Len(s) < 2 THEN s
    ELSE IF s[1] = "[" /\ s[2] = "]" THEN RemoveBrackets(SubSeq(s, 3, Len(s)))
    ELSE <<s[1]>> \o RemoveBrackets(Tail(s))

RECURSIVE Repeat(_, _)
Repeat(c, n) == IF n <= 0 THEN <<>> ELSE <<c>> \o Repeat(c, n - 1)

RECURSIVE Concat(_)
Concat(ss) == IF ss = <<>> THEN <<>> ELSE Head(ss) \o Concat(Tail(ss))

(**************************************************************************)
(* Python dicts: insertion-ordered sequences of [key, val] pairs.         *)
(**************************************************************************)
DictHas(d, key) == \E k \in 1..Len(d) : d[k].key = key

DictGet(d, key) == d[CHOOSE k \in 1..Len(d) : d[k].key = key].val

DictPut(d, key, val) ==
    IF DictHas(d, key)
    THEN [k \in 1..Len(d) |-> IF d[k].key = key THEN [key |-> key, val |-> val] ELSE d[k]]
    ELSE Append(d, [key |-> key, val |-> val])

DictKeys(d) == {d[k].key : k \in 1..Len(d)}

(**************************************************************************)
(* The three line grammars (the compiled regular expressions).            *)
(**************************************************************************)
NoMatch == [matched |-> FALSE]

\* ^([\w\.$]+) -> ([\w$]+):$
class_re(line) ==
    LET n == Len(line)
        a == RunEnd(line, 1, ClassOrigChars)
        ok == /\ a >= 1
              /\ a + 6 <= n
              /\ SubSeq(line, a + 1, a + 4) = <<" ", "-", ">", " ">>
              /\ line[n] = ":"
              /\ AllIn(SubSeq(line, a + 5, n - 1), ClassObfChars)
    IN  IF ok
        THEN [matched |-> TRUE, g1 |-> SubSeq(line, 1, a), g2 |-> SubSeq(line, a + 5, n - 1)]
        ELSE NoMatch

\* ^\s+(?:\d+:\d+:)?(<type>+)\s+([\w<>$]+)\((.*)\)\s+->\s+([\w<>$]+)$
\* with the character class of the return type as a parameter.
MethodGrammar(line, typeChars) ==
    LET n == Len(line)
        a == RunEnd(line, 1, Whitespace)
        p1 == RunEnd(line, a + 1, Digits)
        p2 == RunEnd(line, p1 + 2, Digits)
        hasPrefix == /\ p1 > a
                     /\ p1 + 1 <= n
                     /\ line[p1 + 1] = ":"
                     /\ p2 > p1 + 1
                     /\ p2 + 1 <= n
                     /\ line[p2 + 1] = ":"
        s == IF hasPrefix THEN p2 + 2 ELSE a + 1
        b == RunEnd(line, s, typeChars)
        c == RunEnd(line, b + 1, Whitespace)
        d == RunEnd(line, c + 1, MethodNameChars)
        e == LastIndexOf(line, ")")
        f == RunEnd(line, e + 1, Whitespace)
        g == RunEnd(line, f + 3, Whitespace)
        ok == /\ a >= 1
              /\ b >= s
              /\ c > b
              /\ d > c
              /\ d + 1 <= n
              /\ line[d + 1] = "("
              /\ e > d + 1
              /\ f > e
              /\ f + 2 <= n
              /\ line[f + 1] = "-"
              /\ line[f + 2] = ">"
              /\ g > f + 2
              /\ g < n
              /\ AllIn(SubSeq(line, g + 1, n), MethodNameChars)
    IN  IF ok
        THEN [matched |-> TRUE,
              g1 |-> SubSeq(line, s, b),
              g2 |-> SubSeq(line, c + 1, d),
              g3 |-> SubSeq(line, d + 2, e - 1),
              g4 |-> SubSeq(line, g + 1, n)]
        ELSE NoMatch

method_re(line) == MethodGrammar(line, TypeChars)

\* ^\s+(<type>+)\s+([\w$]+)\s+->\s+([\w$]+)$
FieldGrammar(line, typeChars) ==
    LET n == Len(line)
        a == RunEnd(line, 1, Whitespace)
        b == RunEnd(line, a + 1, typeChars)
        c == RunEnd(line, b + 1, Whitespace)
        d == RunEnd(line, c + 1, FieldNameChars)
        f == RunEnd(line, d + 1, Whitespace)
        g == RunEnd(line, f + 3, Whitespace)
        ok == /\ a >= 1
              /\ b > a
              /\ c > b
              /\ d > c
              /\ f > d
              /\ f + 2 <= n
              /\ line[f + 1] = "-"
              /\ line[f + 2] = ">"
              /\ g > f + 2
              /\ g < n
              /\ AllIn(SubSeq(line, g + 1, n), FieldNameChars)
    IN  IF ok
        THEN [matched |-> TRUE,
              g1 |-> SubSeq(line, a + 1, b),
              g2 |-> SubSeq(line, c + 1, d),
              g3 |-> SubSeq(line, g + 1, n)]
        ELSE NoMatch

field_re(line) == FieldGrammar(line, TypeChars)


(**************************************************************************)
(* The descriptor converter.                                              *)
(**************************************************************************)
primitive_map ==
    <<[key |-> <<"v","o","i","d">>, val |-> <<"V">>],
     [key |-> <<"b","o","o","l","e","a","n">>, val |-> <<"Z">>],
     [key |-> <<"b","y","t","e">>, val |-> <<"B">>],
     [key |-> <<"c","h","a","r">>, val |-> <<"C">>],
     [key |-> <<"s","h","o","r","t">>, val |-> <<"S">>],
     [key |-> <<"i","n","t">>, val |-> <<"I">>],
     [key |-> <<"f","l","o","a","t">>, val |-> <<"F">>],
     [key |-> <<"l","o","n","g">>, val |-> <<"J">>],
     [key |-> <<"d","o","u","b","l","e">>, val |-> <<"D">>]>>

ResolveClassPassthrough(internal_name, cmap) == internal_name

\* class_map.get(internal_name, internal_name)
ResolveClass(internal_name, cmap) ==
    IF DictHas(cmap, internal_name) THEN DictGet(cmap, internal_name) ELSE internal_name

convert_java_type_to_jvm(java_type, cmap) ==
    LET array_depth == CountBrackets(java_type)
        stripped == RemoveBrackets(java_type)
        jvm_type == IF DictHas(primitive_map, stripped)
                    THEN DictGet(primitive_map, stripped)
                    ELSE <<"L">> \o ResolveClass(ReplaceChar(stripped, ".", "/"), cmap) \o <<";">>
    IN  Repeat("[", array_depth) \o jvm_type

ParamType(param) == Split(Strip(param), " ")[1]

get_method_signature(return_type, params_str, cmap) ==
    LET parts == IF params_str # <<>> THEN Split(params_str, ",") ELSE <<>>
        params == [k \in 1..Len(parts) |-> convert_java_type_to_jvm(ParamType(parts[k]), cmap)]
    IN  <<"(">> \o Concat(params) \o <<")">> \o convert_java_type_to_jvm(return_type, cmap)

(**************************************************************************)
(* Input lines the model draws from.                                      *)
(**************************************************************************)
\* a.b.C -> x:
LineClassC ==
    <<"a",".","b",".","C"," ","-",">"," ","x",":">>

\* a.b.C -> y:
LineClassC2 ==
    <<"a",".","b",".","C"," ","-",">"," ","y",":">>

\* D -> z:
LineClassD ==
    <<"D"," ","-",">"," ","z",":">>

\* a.M -> a.M:
LineClassMain ==
    <<"a",".","M"," ","-",">"," ","a",".","M",":">>

\*     int method(int,a.b.C) -> m
LineMethod2 ==
    <<" "," "," "," ","i","n","t"," ","m","e","t","h","o","d","(","i","n","t",",","a",".","b",".","C",")"," ","-",">"," ","m">>

\*     int method(int) -> n
LineMethod1 ==
    <<" "," "," "," ","i","n","t"," ","m","e","t","h","o","d","(","i","n","t",")"," ","-",">"," ","n">>

\*     1:2:void method(D[] p) -> b
LinePrefixed ==
    <<" "," "," "," ","1",":","2",":","v","o","i","d"," ","m","e","t","h","o","d","(","D","[","]"," ","p",")"," ","-",">"," ","b">>

\*     int field -> f
LineField ==
    <<" "," "," "," ","i","n","t"," ","f","i","e","l","d"," ","-",">"," ","f">>

\*     int[] foo() -> a
LineArrayMethod ==
    <<" "," "," "," ","i","n","t","[","]"," ","f","o","o","(",")"," ","-",">"," ","a">>

\*     int[] arr -> g
LineArrayField ==
    <<" "," "," "," ","i","n","t","[","]"," ","a","r","r"," ","-",">"," ","g">>

\* # c
LineComment ==
    <<"#"," ","c">>

\* Class headers (one class declared under two obfuscated names, one header
\* with a dotted right-hand side), two overloads and a field.
LinePool == {LineClassC, LineClassC2, LineClassD, LineClassMain, LineMethod2,
             LinePrefixed, LineField}

\* The lines of the end-to-end example, array-typed member lines and a
\* comment line.
ExamplePool == {LineClassC, LineMethod2, LineMethod1, LineField, LineArrayMethod,
                LineArrayField, LineComment}

CallLinePool == {LineClassC, LineMethod1, LineField, LineArrayField}

RECURSIVE JoinLines(_)
JoinLines(ls) ==
    IF ls = <<>> THEN <<>>
    ELSE IF Len(ls) = 1 THEN ls[1]
    ELSE ls[1] \o <<"\n">> \o JoinLines(Tail(ls))

SeqsUpTo(S, n) == UNION {[1..m -> S] : m \in 0..n}

Inputs == {JoinLines(ls) : ls \in SeqsUpTo(LinePool, MaxLines)}

ExampleInputs == {JoinLines(ls) : ls \in SeqsUpTo(ExamplePool, MaxExampleLines)}

CallInputs == {JoinLines(ls) : ls \in SeqsUpTo(CallLinePool, MaxCallLines)}

(**************************************************************************)
(* parse_mappings, one action per step of its two loops.                  *)
(**************************************************************************)
StaleData == data

\* data = {"classes": {}}
FreshData == [classes |-> <<>>]

\* class_map = {}
FreshClassMap == <<>>

\* current_class_jvm = None
FreshCursor == None

\* method_overloads = {}
FreshOverloads == <<>>

\* [line.rstrip() for line in input_text.split('\n')
\*  if line.strip() and not line.startswith('#')]
KeepLine(line) == Strip(line) # <<>> /\ ~StartsWith(line, "#")

FilterLines(text) ==
    LET raw == Split(text, "\n")
        kept == SelectSeq(raw, KeepLine)
    IN  [k \in 1..Len(kept) |-> RStrip(kept[k])]

EmptyClassRecord(obfuscated_name) ==
    [name |-> obfuscated_name, methods |-> <<>>, fields |-> <<>>]

\* original_jvm = original_java.replace('.', '/')
OriginalJvm(original_java) == ReplaceChar(original_java, ".", "/")

RegisterClassKeepFirst(cmap, m) ==
    IF DictHas(cmap, OriginalJvm(m.g1)) THEN cmap ELSE DictPut(cmap, OriginalJvm(m.g1), m.g2)

\* class_map[original_jvm] = obfuscated_name
RegisterClass(cmap, m) == DictPut(cmap, OriginalJvm(m.g1), m.g2)

CreateClassRecordKeepFirst(d, m) ==
    IF DictHas(d.classes, OriginalJvm(m.g1))
    THEN d
    ELSE [d EXCEPT !.classes = DictPut(@, OriginalJvm(m.g1), EmptyClassRecord(m.g2))]

\* data["classes"][original_jvm] = {"name": ..., "methods": {}, "fields": {}}
CreateClassRecord(d, m) ==
    [d EXCEPT !.classes = DictPut(@, OriginalJvm(m.g1), EmptyClassRecord(m.g2))]

CollatedValueAlwaysList(methods) == [isList |-> TRUE, items |-> methods]

\* The value stored under a method name: the staged list itself when it
\* holds more than one entry, its only element otherwise.
CollatedValue(methods) ==
    IF Len(methods) > 1
    THEN [isList |-> TRUE, items |-> methods]
    ELSE [isList |-> FALSE, items |-> <<methods[1]>>]

\* data["classes"][cls]["methods"][method_name] = value
StoreMethod(d, cls, method_name, value) ==
    LET rec == DictGet(d.classes, cls)
    IN  [d EXCEPT !.classes =
            DictPut(@, cls, [rec EXCEPT !.methods = DictPut(@, method_name, value)])]

\* data["classes"][cls]["fields"][field_name] = {"name": obf_field}
StoreField(d, cls, field_name, obf_field) ==
    LET rec == DictGet(d.classes, cls)
    IN  [d EXCEPT !.classes =
            DictPut(@, cls, [rec EXCEPT !.fields =
                                DictPut(@, field_name, [name |-> obf_field])])]

\* for method_name, methods in method_overloads.items(): ...
RECURSIVE StoreOverloads(_, _, _)
StoreOverloads(d, cls, overloads) ==
    IF overloads = <<>> THEN d
    ELSE StoreOverloads(
             StoreMethod(d, cls, Head(overloads).key, CollatedValue(Head(overloads).val)),
             cls, Tail(overloads))

\* if current_class_jvm and method_overloads: store every pending group
FlushedData(d, cls, overloads) ==
    IF cls # None /\ overloads # <<>> THEN StoreOverloads(d, cls, overloads) ELSE d

\* method_overloads after the flush that precedes a new class
FlushedOverloads(cls, overloads) ==
    IF cls # None /\ overloads # <<>> THEN FreshOverloads ELSE overloads

\* if method_name not in method_overloads: method_overloads[method_name] = []
\* method_overloads[method_name].append(method_entry)
StageMethod(overloads, method_name, method_entry) ==
    IF DictHas(overloads, method_name)
    THEN DictPut(overloads, method_name, Append(DictGet(overloads, method_name), method_entry))
    ELSE DictPut(overloads, method_name, <<method_entry>>)

\* method_entry = {"name": obf_method, "signature": signature}
MethodEntry(m, cmap) ==
    [name |-> m.g4, signature |-> get_method_signature(m.g1, m.g3, cmap)]

\* The first loop over a list of lines, as a function of the list.
RECURSIVE Pass1Loop(_, _, _)
Pass1Loop(ls, d, cmap) ==
    IF ls = <<>> THEN [data |-> d, class_map |-> cmap]
    ELSE LET m == class_re(Head(ls))
         IN  IF m.matched
             THEN Pass1Loop(Tail(ls), CreateClassRecord(d, m), RegisterClass(cmap, m))
             ELSE Pass1Loop(Tail(ls), d, cmap)

\* The second loop as a function of the list: the table, the cursor and
\* the staged overloads when the loop ends.
RECURSIVE Pass2Loop(_, _, _, _, _)
Pass2Loop(ls, d, cmap, cls, overloads) ==
    IF ls = <<>> THEN [data |-> d, cursor |-> cls, overloads |-> overloads]
    ELSE LET line == Head(ls)
             rest == Tail(ls)
         IN  IF class_re(line).matched
             THEN Pass2Loop(rest, FlushedData(d, cls, overloads), cmap,
                            OriginalJvm(class_re(line).g1),
                            FlushedOverloads(cls, overloads))
             ELSE IF cls = None
             THEN Pass2Loop(rest, d, cmap, cls, overloads)
             ELSE IF method_re(line).matched
             THEN Pass2Loop(rest, d, cmap, cls,
                            StageMethod(overloads, method_re(line).g2,
                                        MethodEntry(method_re(line), cmap)))
             ELSE IF field_re(line).matched
             THEN Pass2Loop(rest, StoreField(d, cls, field_re(line).g2, field_re(line).g3),
                            cmap, cls, overloads)
             ELSE Pass2Loop(rest, d, cmap, cls, overloads)

\* parse_mappings on an already filtered list of lines.
ParseLines(ls) ==
    LET p1 == Pass1Loop(ls, [classes |-> <<>>], <<>>)
        p2 == Pass2Loop(ls, p1.data, p1.class_map, None, <<>>)
    IN  FlushedData(p2.data, p2.cursor, p2.overloads)

\* parse_mappings as a function of its argument.
parse_mappings(text) == ParseLines(FilterLines(text))

\* A single streaming pass would resolve against the classes seen so far.
SignatureMapStreaming == Pass1Loop(SubSeq(lines, 1, idx), [classes |-> <<>>], <<>>).class_map

\* The resolution table handed to get_method_signature in pass 2.
SignatureMap == class_map

CurLine == lines[idx]

InitWith(texts) ==
    /\ input_text \in texts
    /\ lines = <<>>
    /\ pc = "call"
    /\ idx = 0
    /\ data = [classes |-> <<>>]
    /\ class_map = <<>>
    /\ current_class_jvm = None
    /\ method_overloads = <<>>
    /\ first_call = None
    /\ interleaved = FALSE

Init == InitWith(Inputs)

InitExample == InitWith(ExampleInputs)

\* Entry of parse_mappings: the locals and the filtered line list.
Enter ==
    /\ pc = "call"
    /\ data' = FreshData
    /\ class_map' = FreshClassMap
    /\ lines' = FilterLines(input_text)
    /\ idx' = 1
    /\ pc' = "pass1"
    /\ UNCHANGED <<input_text, current_class_jvm, method_overloads, first_call, interleaved>>

\* Pass 1, a class line: register it and create its empty record.
Pass1Class ==
    /\ pc = "pass1"
    /\ idx <= Len(lines)
    /\ class_re(CurLine).matched
    /\ class_map' = RegisterClass(class_map, class_re(CurLine))
    /\ data' = CreateClassRecord(data, class_re(CurLine))
    /\ idx' = idx + 1
    /\ UNCHANGED <<input_text, lines, pc, current_class_jvm, method_overloads,
                   first_call, interleaved>>

\* Pass 1, any other line.
Pass1Other ==
    /\ pc = "pass1"
    /\ idx <= Len(lines)
    /\ ~class_re(CurLine).matched
    /\ idx' = idx + 1
    /\ UNCHANGED <<input_text, lines, pc, data, class_map, current_class_jvm,
                   method_overloads, first_call, interleaved>>

\* End of the first loop: the second loop starts with a fresh cursor.
Pass1End ==
    /\ pc = "pass1"
    /\ idx > Len(lines)
    /\ current_class_jvm' = FreshCursor
    /\ method_overloads' = FreshOverloads
    /\ idx' = 1
    /\ pc' = "pass2"
    /\ UNCHANGED <<input_text, lines, data, class_map, first_call, interleaved>>

\* Pass 2, a class line: flush the pending overloads, move the cursor.
Pass2Class ==
    /\ pc = "pass2"
    /\ idx <= Len(lines)
    /\ class_re(CurLine).matched
    /\ data' = FlushedData(data, current_class_jvm, method_overloads)
    /\ method_overloads' = FlushedOverloads(current_class_jvm, method_overloads)
    /\ current_class_jvm' = OriginalJvm(class_re(CurLine).g1)
    /\ idx' = idx + 1
    /\ UNCHANGED <<input_text, lines, pc, class_map, first_call, interleaved>>

\* Pass 2, a line that is no class line while no class has been seen.
Pass2NoClass ==
    /\ pc = "pass2"
    /\ idx <= Len(lines)
    /\ ~class_re(CurLine).matched
    /\ current_class_jvm = None
    /\ idx' = idx + 1
    /\ UNCHANGED <<input_text, lines, pc, data, class_map, current_class_jvm,
                   method_overloads, first_call, interleaved>>

\* Pass 2, a method line: stage its entry under the original method name.
Pass2Method ==
    /\ pc = "pass2"
    /\ idx <= Len(lines)
    /\ ~class_re(CurLine).matched
    /\ current_class_jvm # None
    /\ method_re(CurLine).matched
    /\ LET m == method_re(CurLine)
       IN  method_overloads' =
               StageMethod(method_overloads, m.g2, MethodEntry(m, SignatureMap))
    /\ idx' = idx + 1
    /\ UNCHANGED <<input_text, lines, pc, data, class_map, current_class_jvm,
                   first_call, interleaved>>

\* Pass 2, a field line: store it directly in the current class.
Pass2Field ==
    /\ pc = "pass2"
    /\ idx <= Len(lines)
    /\ ~class_re(CurLine).matched
    /\ current_class_jvm # None
    /\ ~method_re(CurLine).matched
    /\ field_re(CurLine).matched
    /\ LET m == field_re(CurLine)
       IN  data' = StoreField(data, current_class_jvm, m.g2, m.g3)
    /\ idx' = idx + 1
    /\ UNCHANGED <<input_text, lines, pc, class_map, current_class_jvm,
                   method_overloads, first_call, interleaved>>

Pass2IgnoreResets ==
    /\ pc = "pass2"
    /\ idx <= Len(lines)
    /\ ~class_re(CurLine).matched
    /\ current_class_jvm # None
    /\ ~method_re(CurLine).matched
    /\ ~field_re(CurLine).matched
    /\ idx' = idx + 1
    /\ current_class_jvm' = None
    /\ UNCHANGED <<input_text, lines, pc, data, class_map, method_overloads,
                   first_call, interleaved>>

\* Pass 2, a line no pattern matches.
Pass2Ignore ==
    /\ pc = "pass2"
    /\ idx <= Len(lines)
    /\ ~class_re(CurLine).matched
    /\ current_class_jvm # None
    /\ ~method_re(CurLine).matched
    /\ ~field_re(CurLine).matched
    /\ idx' = idx + 1
    /\ UNCHANGED <<input_text, lines, pc, data, class_map, current_class_jvm,
                   method_overloads, first_call, interleaved>>

\* End of the second loop: flush the last class's overloads and return.
Finish ==
    /\ pc = "pass2"
    /\ idx > Len(lines)
    /\ data' = FlushedData(data, current_class_jvm, method_overloads)
    /\ pc' = "done"
    /\ UNCHANGED <<input_text, lines, idx, class_map, current_class_jvm,
                   method_overloads, first_call, interleaved>>

Next ==
    \/ Enter
    \/ Pass1Class
    \/ Pass1Other
    \/ Pass1End
    \/ Pass2Class
    \/ Pass2NoClass
    \/ Pass2Method
    \/ Pass2Field
    \/ Pass2Ignore
    \/ Finish

Spec == Init /\ [][Next]_vars

SpecExample == InitExample /\ [][Next]_vars

(**************************************************************************)
(* Repeated calls in one process: when a call has returned, the caller    *)
(* may call parse_mappings again on any text.  The first call's argument  *)
(* and result are remembered for comparison.                              *)
(**************************************************************************)
InitCalls == InitWith(CallInputs)

CallAgain ==
    /\ pc = "done"
    /\ first_call' = IF first_call = None
                     THEN [input |-> input_text, result |-> data]
                     ELSE first_call
    /\ interleaved' = (interleaved \/ (first_call # None /\ input_text # first_call.input))
    /\ input_text' \in CallInputs
    /\ pc' = "call"
    /\ UNCHANGED <<lines, idx, data, class_map, current_class_jvm, method_overloads>>

NextCalls == Next \/ CallAgain

SpecCalls == InitCalls /\ [][NextCalls]_vars

(**************************************************************************)
(* Vocabulary of the properties: what the input says, read off `lines`    *)
(* independently of the parser's variables.                               *)
(**************************************************************************)
LineIdx == 1..Len(lines)

IsClassLine(k) == class_re(lines[k]).matched

IsMethodLine(k) == ~IsClassLine(k) /\ method_re(lines[k]).matched

IsFieldLine(k) == ~IsClassLine(k) /\ ~method_re(lines[k]).matched /\ field_re(lines[k]).matched

DeclaredKey(k) == ReplaceChar(class_re(lines[k]).g1, ".", "/")

DeclaredObf(k) == class_re(lines[k]).g2

MaxOf(S) == CHOOSE x \in S : \A y \in S : y <= x

MinOf(S) == CHOOSE x \in S : \A y \in S : x <= y

RECURSIVE Ascending(_)
Ascending(S) == IF S = {} THEN <<>> ELSE <<MinOf(S)>> \o Ascending(S \ {MinOf(S)})

\* The class whose declaration line is the nearest class line above line k.
CursorAt(k) ==
    LET above == {j \in 1..(k - 1) : IsClassLine(j)}
    IN  IF above = {} THEN None ELSE DeclaredKey(MaxOf(above))

\* The resolution table of the whole input: each declared class mapped to
\* the obfuscated name of its last declaration.
CompleteTable == Pass1Loop(lines, [classes |-> <<>>], <<>>).class_map

MethodName(k) == method_re(lines[k]).g2

\* The record of method line k, its descriptor resolved against the
\* complete table.
EntryOf(k) == MethodEntry(method_re(lines[k]), CompleteTable)

MethodLinesOf(cls, foo) ==
    {k \in LineIdx : IsMethodLine(k) /\ CursorAt(k) = cls /\ MethodName(k) = foo}

MethodNames == {MethodName(k) : k \in {j \in LineIdx : IsMethodLine(j)}}

ClassKeys == DictKeys(data.classes)

MethodsOf(cls) == DictGet(data.classes, cls).methods

FieldsOf(cls) == DictGet(data.classes, cls).fields

Contains(s, sub) ==
    \E i \in 0..(Len(s) - Len(sub)) : SubSeq(s, i + 1, i + Len(sub)) = sub

\* Every method record staged in method_overloads, with its method name.
StagedEntries ==
    UNION {{<<method_overloads[p].key, method_overloads[p].val[q]>> :
               q \in 1..Len(method_overloads[p].val)} :
           p \in 1..Len(method_overloads)}

EntriesOfMethods(ms) ==
    UNION {{<<ms[p].key, ms[p].val.items[q]>> : q \in 1..Len(ms[p].val.items)} :
           p \in 1..Len(ms)}

\* Every method record stored in the table, with its method name.
StoredEntries ==
    UNION {EntriesOfMethods(data.classes[c].val.methods) : c \in 1..Len(data.classes)}

\* The class names the return and parameter types of a method line name,
\* m being the line's match.
TypesNamed(m) ==
    LET parts == IF m.g3 # <<>> THEN Split(m.g3, ",") ELSE <<>>
        types == {m.g1} \cup {ParamType(parts[i]) : i \in 1..Len(parts)}
    IN  {OriginalJvm(RemoveBrackets(t)) : t \in types}

(**************************************************************************)
(* C1.  For every class C of the returned table and every method name     *)
(* foo with two or more method lines under C (the cursor is C when the    *)
(* line is read, whichever declaration of C set it), methods[foo] of C is  *)
(* the list of one record per such line, in input order, each with its    *)
(* line's obfuscated name and descriptor.                                 *)
(**************************************************************************)
C1_AllOverloadsListed ==
    pc = "done" =>
        \A cls \in ClassKeys : \A foo \in MethodNames :
            LET ks == Ascending(MethodLinesOf(cls, foo))
            IN  Len(ks) >= 2 =>
                    /\ DictHas(MethodsOf(cls), foo)
                    /\ DictGet(MethodsOf(cls), foo) =
                           [isList |-> TRUE, items |-> [n \in 1..Len(ks) |-> EntryOf(ks[n])]]

(**************************************************************************)
(* C2.  A method name with exactly one method line under class C is       *)
(* stored as a single record, never as a list; a stored list always has   *)
(* at least two elements.                                                 *)
(**************************************************************************)
C2_SingleRecordNotList ==
    /\ \A c \in 1..Len(data.classes) :
           LET ms == data.classes[c].val.methods
           IN  \A p \in 1..Len(ms) :
                   /\ ms[p].val.isList => Len(ms[p].val.items) >= 2
                   /\ ~ms[p].val.isList => Len(ms[p].val.items) = 1
    /\ pc = "done" =>
           \A cls \in ClassKeys : \A foo \in MethodNames :
               LET ks == Ascending(MethodLinesOf(cls, foo))
               IN  Len(ks) = 1 =>
                       /\ DictHas(MethodsOf(cls), foo)
                       /\ DictGet(MethodsOf(cls), foo) =
                              [isList |-> FALSE, items |-> <<EntryOf(ks[1])>>]

\* A finished parse of an input with exactly one method line of some name
\* under a class, stored as a single record.
C2_Witness ==
    /\ pc = "done"
    /\ \E cls \in ClassKeys : \E foo \in MethodNames :
           /\ Cardinality(MethodLinesOf(cls, foo)) = 1
           /\ DictHas(MethodsOf(cls), foo)
           /\ ~DictGet(MethodsOf(cls), foo).isList

(**************************************************************************)
(* C3.  Pass 2 runs on the complete resolution table: from the start of   *)
(* pass 2 on class_map is the table of the whole input, and every method  *)
(* record held (staged or stored) is the record of a method line of the   *)
(* input with its descriptor resolved against that table, so a referenced *)
(* class declared anywhere in the input, also below the method line,      *)
(* appears in the descriptor under its obfuscated name.                   *)
(**************************************************************************)
C3_DescriptorsUseCompleteTable ==
    LET table == CompleteTable
    IN  /\ pc \in {"pass2", "done"} => class_map = table
        /\ \A e \in StagedEntries \cup StoredEntries :
               \E k \in LineIdx :
                   LET m == method_re(lines[k])
                   IN  /\ ~IsClassLine(k)
                       /\ m.matched
                       /\ m.g2 = e[1]
                       /\ e[2] = MethodEntry(m, table)
                       /\ \A b \in TypesNamed(m) :
                              DictHas(table, b) =>
                                  Contains(e[2].signature,
                                           <<"L">> \o DictGet(table, b) \o <<";">>)

\* A stored method record whose descriptor names a class that is declared
\* only below the method line.
C3_Witness ==
    /\ pc = "done"
    /\ \E k \in LineIdx : \E j \in LineIdx :
           /\ IsMethodLine(k)
           /\ CursorAt(k) # None
           /\ IsClassLine(j)
           /\ j > k
           /\ \A i \in 1..k : IsClassLine(i) => DeclaredKey(i) # DeclaredKey(j)
           /\ DeclaredKey(j) \in TypesNamed(method_re(lines[k]))
           /\ <<MethodName(k), EntryOf(k)>> \in StoredEntries
           /\ Contains(EntryOf(k).signature, <<"L">> \o DeclaredObf(j) \o <<";">>)

\* Pass 1 has just ended, or the call has returned.
AfterPass1 == (pc = "pass2" /\ idx = 1) \/ pc = "done"

(**************************************************************************)
(* C4.  As stated: when pass 1 has ended, and still when the call         *)
(* returns, every class-declaration line has its own obfuscated name in   *)
(* the resolution table under its slash-converted name, and the class     *)
(* record carries the table's name.                                       *)
(**************************************************************************)
C4_EveryDeclarationRegistered ==
    AfterPass1 =>
        \A k \in LineIdx :
            IsClassLine(k) =>
                /\ DictHas(class_map, DeclaredKey(k))
                /\ DictGet(class_map, DeclaredKey(k)) = DeclaredObf(k)
                /\ DictHas(data.classes, DeclaredKey(k))
                /\ DictGet(data.classes, DeclaredKey(k)).name = DictGet(class_map, DeclaredKey(k))

IsLastDeclaration(k) ==
    /\ IsClassLine(k)
    /\ \A j \in LineIdx : (j > k /\ IsClassLine(j)) => DeclaredKey(j) # DeclaredKey(k)

(**************************************************************************)
(* C4, amended.  When pass 1 has ended, and still when the call returns,  *)
(* every declared class has an entry under its slash-converted name whose *)
(* value is the obfuscated name of the LAST declaration line of that      *)
(* class, and the class record carries the same name as the table entry.  *)
(**************************************************************************)
C4_LastDeclarationRegistered ==
    AfterPass1 =>
        \A k \in LineIdx :
            IsClassLine(k) =>
                /\ DictHas(class_map, DeclaredKey(k))
                /\ IsLastDeclaration(k) => DictGet(class_map, DeclaredKey(k)) = DeclaredObf(k)
                /\ DictHas(data.classes, DeclaredKey(k))
                /\ DictGet(data.classes, DeclaredKey(k)).name = DictGet(class_map, DeclaredKey(k))

\* Pass 1 has ended on an input that declares a dotted class name twice
\* with different obfuscated names, a member line in between.
C4_Witness ==
    /\ pc = "pass2"
    /\ idx = 1
    /\ \E j \in LineIdx : \E k \in LineIdx :
           /\ j + 1 < k
           /\ IsClassLine(j)
           /\ IsClassLine(k)
           /\ ~IsClassLine(j + 1)
           /\ DeclaredKey(j) = DeclaredKey(k)
           /\ DeclaredObf(j) # DeclaredObf(k)
           /\ Contains(DeclaredKey(k), <<"/">>)

(**************************************************************************)
(* C5.  The end-to-end example: the class line a.b.C -> x: followed by    *)
(* the two overloads of method and the field yields exactly one class     *)
(* a/b/C named x, methods = {method: [m (ILx;)I, n (I)I]} in that order,  *)
(* fields = {field: f}.                                                   *)
(**************************************************************************)
ExampleText == JoinLines(<<LineClassC, LineMethod2, LineMethod1, LineField>>)

ExampleResult ==
    [classes |->
        <<[key |-> <<"a","/","b","/","C">>,
           val |-> [name |-> <<"x">>,
                    methods |->
                        <<[key |-> <<"m","e","t","h","o","d">>,
                           val |-> [isList |-> TRUE,
                                    items |->
                                        <<[name |-> <<"m">>,
                                           signature |-> <<"(","I","L","x",";",")","I">>],
                                          [name |-> <<"n">>,
                                           signature |-> <<"(","I",")","I">>]>>]]>>,
                    fields |->
                        <<[key |-> <<"f","i","e","l","d">>,
                           val |-> [name |-> <<"f">>]]>>]]>>]

C5_EndToEndExample ==
    (pc = "done" /\ input_text = ExampleText) => data = ExampleResult

C5_Witness == pc = "done" /\ input_text = ExampleText /\ Len(data.classes) = 1

(**************************************************************************)
(* C6.  parse_mappings keeps no state between calls: a call on the text   *)
(* of the first call returns the first call's table again, whatever calls *)
(* ran in between, and every call returns the table that is a function of *)
(* its own argument alone.                                                *)
(**************************************************************************)
C6_SameInputSameTable ==
    pc = "done" =>
        /\ data = parse_mappings(input_text)
        /\ (first_call # None /\ input_text = first_call.input) => data = first_call.result

\* A later call on the first call's text has returned, after a call on a
\* different text, with a table that holds a member.
C6_Witness ==
    /\ pc = "done"
    /\ first_call # None
    /\ interleaved
    /\ input_text = first_call.input
    /\ \E c \in 1..Len(data.classes) :
           data.classes[c].val.methods # <<>> \/ data.classes[c].val.fields # <<>>

(**************************************************************************)
(* C7.  As stated: the record of a class has the obfuscated name of the   *)
(* last declaration of the class and holds only methods and fields of     *)
(* member lines that follow that last declaration.                        *)
(**************************************************************************)
LastDeclarationOf(cls) == MaxOf({k \in LineIdx : IsClassLine(k) /\ DeclaredKey(k) = cls})

FieldName(k) == field_re(lines[k]).g2

FieldLinesOf(cls, f) ==
    {k \in LineIdx : IsFieldLine(k) /\ CursorAt(k) = cls /\ FieldName(k) = f}

C7_OnlyLastDeclarationMembers ==
    pc = "done" =>
        \A cls \in ClassKeys :
            LET last == LastDeclarationOf(cls)
                fs == FieldsOf(cls)
            IN  /\ DictGet(data.classes, cls).name = DeclaredObf(last)
                /\ \A p \in 1..Len(fs) :
                       \E k \in FieldLinesOf(cls, fs[p].key) :
                           k > last /\ fs[p].val.name = field_re(lines[k]).g3
                /\ \A e \in EntriesOfMethods(MethodsOf(cls)) :
                       \E k \in MethodLinesOf(cls, e[1]) : k > last /\ e[2] = EntryOf(k)

(**************************************************************************)
(* C7, amended.  The record of a class has the obfuscated name of the     *)
(* last declaration of the class, and it keeps the members read under     *)
(* every declaration of the class: its fields are the fields of all field *)
(* lines read while the cursor is that class, each with the obfuscated    *)
(* name of the last such line of its name, and its method names are those *)
(* of all method lines read while the cursor is that class.               *)
(**************************************************************************)
C7_LastNameMembersKept ==
    pc = "done" =>
        \A cls \in ClassKeys :
            LET fs == FieldsOf(cls)
            IN  /\ DictGet(data.classes, cls).name = DeclaredObf(LastDeclarationOf(cls))
                /\ DictKeys(fs) =
                       {FieldName(k) : k \in {j \in LineIdx : IsFieldLine(j) /\ CursorAt(j) = cls}}
                /\ \A p \in 1..Len(fs) :
                       fs[p].val.name =
                           field_re(lines[MaxOf(FieldLinesOf(cls, fs[p].key))]).g3
                /\ DictKeys(MethodsOf(cls)) =
                       {MethodName(k) : k \in {j \in LineIdx : IsMethodLine(j) /\ CursorAt(j) = cls}}

\* A class declared twice under different obfuscated names whose record
\* holds a field and a method read before its last declaration.
C7_Witness ==
    /\ pc = "done"
    /\ \E cls \in ClassKeys : \E j \in LineIdx : \E k \in LineIdx : \E i \in LineIdx :
           /\ IsClassLine(j)
           /\ DeclaredKey(j) = cls
           /\ DeclaredObf(j) # DeclaredObf(LastDeclarationOf(cls))
           /\ k < LastDeclarationOf(cls)
           /\ i < LastDeclarationOf(cls)
           /\ IsFieldLine(k)
           /\ CursorAt(k) = cls
           /\ DictHas(FieldsOf(cls), FieldName(k))
           /\ IsMethodLine(i)
           /\ CursorAt(i) = cls
           /\ DictHas(MethodsOf(cls), MethodName(i))

(**************************************************************************)
(* C8.  While a current class is set, every indented line of the method   *)
(* grammar whose return type is a type name the descriptor converter      *)
(* accepts, array markers included, stages one record with the line's     *)
(* obfuscated name and descriptor, and every such line of the field       *)
(* grammar is recorded as a field.  Stated on the state right after the   *)
(* line has been read.                                                    *)
(**************************************************************************)
ArrayTypeChars == TypeChars \cup {"[", "]"}

C8_EveryMemberLineRecorded ==
    (pc = "pass2" /\ idx > 1 /\ current_class_jvm # None /\ ~IsClassLine(idx - 1)) =>
        LET mm == MethodGrammar(lines[idx - 1], ArrayTypeChars)
            fm == FieldGrammar(lines[idx - 1], ArrayTypeChars)
        IN  /\ mm.matched =>
                /\ DictHas(method_overloads, mm.g2)
                /\ LET staged == DictGet(method_overloads, mm.g2)
                   IN  staged[Len(staged)] = MethodEntry(mm, class_map)
            /\ (~mm.matched /\ fm.matched) =>
                /\ DictHas(FieldsOf(current_class_jvm), fm.g2)
                /\ DictGet(FieldsOf(current_class_jvm), fm.g2).name = fm.g3

(**************************************************************************)
(* C9.  Silent exclusion: a line no grammar matches, and a member line    *)
(* above the first class line, has no effect.  After any number of lines  *)
(* of pass 2 the table, the cursor and the staged overloads are what they *)
(* are after reading the same lines with the excluded ones removed, and   *)
(* the returned table is the table of the input without them.             *)
(**************************************************************************)
Excluded(k) ==
    /\ ~IsClassLine(k)
    /\ \/ ~method_re(lines[k]).matched /\ ~field_re(lines[k]).matched
       \/ \A j \in 1..(k - 1) : ~IsClassLine(j)

RECURSIVE KeptUpTo(_)
KeptUpTo(n) ==
    IF n = 0 THEN <<>>
    ELSE IF Excluded(n) THEN KeptUpTo(n - 1) ELSE Append(KeptUpTo(n - 1), lines[n])

KeptLines == KeptUpTo(Len(lines))

C9_SilentExclusion ==
    /\ pc = "pass2" =>
           LET p1 == Pass1Loop(KeptLines, [classes |-> <<>>], <<>>)
           IN  [data |-> data, cursor |-> current_class_jvm, overloads |-> method_overloads]
                   = Pass2Loop(KeptUpTo(idx - 1), p1.data, p1.class_map, None, <<>>)
    /\ pc = "done" => data = ParseLines(KeptLines)

\* A finished parse that read a member line above the first class, and a
\* line no grammar matches under a class, followed by a recorded field.
C9_Witness ==
    /\ pc = "done"
    /\ \E k \in LineIdx : Excluded(k) /\ CursorAt(k) = None /\ method_re(lines[k]).matched
    /\ \E k \in LineIdx : \E j \in LineIdx :
           /\ Excluded(k)
           /\ CursorAt(k) # None
           /\ j > k
           /\ IsFieldLine(j)
           /\ CursorAt(j) = CursorAt(k)
           /\ DictHas(FieldsOf(CursorAt(j)), FieldName(j))

(**************************************************************************)
(* C10.  Every method or field stored in the record of class C comes from *)
(* a member line that lies below a top-level line declaring C and above   *)
(* the next top-level (non-indented) line.                                *)
(**************************************************************************)
IsTopLevel(k) == lines[k][1] \notin Whitespace

\* The class declared by the nearest top-level line above line k, if that
\* line is a class declaration.
HeaderOwner(k) ==
    LET above == {j \in 1..(k - 1) : IsTopLevel(j)}
    IN  IF above = {} THEN None
        ELSE IF IsClassLine(MaxOf(above)) THEN DeclaredKey(MaxOf(above)) ELSE None

C10_MembersUnderOwnHeader ==
    pc = "done" =>
        \A cls \in ClassKeys :
            LET fs == FieldsOf(cls)
            IN  /\ \A p \in 1..Len(fs) :
                       \E k \in LineIdx :
                           /\ IsFieldLine(k)
                           /\ FieldName(k) = fs[p].key
                           /\ field_re(lines[k]).g3 = fs[p].val.name
                           /\ HeaderOwner(k) = cls
                /\ \A e \in EntriesOfMethods(MethodsOf(cls)) :
                       \E k \in LineIdx :
                           /\ IsMethodLine(k)
                           /\ MethodName(k) = e[1]
                           /\ e[2] = EntryOf(k)
                           /\ HeaderOwner(k) = cls

=============================================================================
